---- MODULE Spec2Model ----
(***************************************************************************)
(* A model of simple_video_encoder (src/src/lib.rs, output.rs, frame.rs):  *)
(* the builder, the encoder's build / append-frame / finish operations,    *)
(* the Output Stream's write_frame and finish, the receive-drain loop, the *)
(* Frame fill adapters and the destructors.  The native libraries (muxer,  *)
(* codec, converter) are the environment: an API call logs every native    *)
(* call it makes in `calls`, with its return code, and the outcome of each *)
(* native call is an input of the action that makes it.                    *)
(***************************************************************************)
EXTENDS Integers, Sequences, FiniteSets, TLC

VARIABLES
    phase,      \* "idle" | "builder" | "enc" | "gone": what the caller holds
    builder,    \* SimpleVideoEncoderBuilder: filename and OptionalSettings
    logSets,    \* number of av_log_set_level(AV_LOG_QUIET) calls so far
    calls,      \* the native calls of the last API call, in order, with return codes
    alive,      \* native resources allocated and not yet released
    rel,        \* native resources in the order they were released
    fc,         \* OutputFormatContext and the muxer state behind it
    enc,        \* AVCodecContextWrapper and the codec session behind it
    os,         \* OutputStream's own fields (next_pts, sws_context, packet)
    tmp,        \* OutputStream.temp_frame, the destination Frame
    rgb,        \* SimpleVideoEncoder.temp_rgb_frame
    uframe,     \* the caller's Frame (new_frame), or NoFrame
    result,     \* the last API call and what it returned
    nwrites,    \* number of append-frame calls made on the encoder
    nfills,     \* number of fill-from calls made on the caller's Frame
    faults,     \* number of native calls that have failed so far
    wf,         \* OutputStream::write_frame calls: made, and returned Ok
    finished    \* SimpleVideoEncoder::finish has been called and has returned

vars == <<phase, builder, logSets, calls, alive, rel, fc, enc, os, tmp, rgb,
          uframe, result, nwrites, nfills, faults, wf, finished>>

\* ------------------------------------------------------------- bounds
MaxFrames == 3
MaxBuilders == 2
MaxFills == 2
MaxFaults == 1
NumColours == 1
NumGarbage == 1
FrameW == 2
FrameH == 1
LinePad == 1
MuxTbScale == 2

\* -------------------------------------------------- program constants
DefaultBitrate == 800000
DefaultGopSize == 10
Framerate == 30
EAGAIN == -11
AVERROR_EOF == -541478725
ENOMEM == -12
EINVAL == -22
EIO == -5
\* stands for AV_NOPTS_VALUE (INT64_MIN), the pts av_frame_alloc leaves
NoPts == -1
AV_ERROR_MAX_STRING_SIZE == 64

TargetFmt == "YUV420P"
RgbFmt == "RGB24"
PixFmts == {RgbFmt, TargetFmt}

NoFrame == [fmt |-> "none"]

\* ------------------------------------------------------ the call log
Log(w, fn, on, rc) ==
    [w EXCEPT !.calls = Append(@, [fn |-> fn, on |-> on, rc |-> rc])]

Alloc(w, r) == [w EXCEPT !.alive = @ \cup {r}]

Release(w, r) == [w EXCEPT !.alive = @ \ {r}, !.rel = Append(@, r)]

\* K(v), with v computed once, as `let` computes a value once
Let(v, K(_)) == CHOOSE y \in {K(x) : x \in {v}} : TRUE

\* The inputs of an action name at most one native call that fails: the call
\* `fn` on `site`, or the k-th call of `fn` inside a receive-drain.
NoFail == [site |-> "none", fn |-> "none", k |-> 0]
F(site, fn) == [site |-> site, fn |-> fn, k |-> 0]
FK(fn, k) == [site |-> "packet", fn |-> fn, k |-> k]
Fails(in, site, fn) == in.fail.site = site /\ in.fail.fn = fn
FailsAt(in, k, fn) == in.fail.fn = fn /\ in.fail.k = k

\* ------------------------------------------------------------ make_av_error
\* av_make_error_string: the text for the code, then the terminator, in a
\* buffer of zeros; a byte of text is a nonzero byte.
ErrorTextLen(err) == 1 + ((0 - err) % 7)
av_make_error_string(err) ==
    [i \in 0..(AV_ERROR_MAX_STRING_SIZE - 1) |->
        IF i < ErrorTextLen(err) THEN 1 + ((i + 0 - err) % 255) ELSE 0]

\* buffer.iter().enumerate().find(|(_, x)| **x == 0), searching from i
RECURSIVE find_zero(_, _)
find_zero(buffer, i) ==
    IF buffer[i] = 0 THEN i ELSE find_zero(buffer, i + 1)

\* CStr::from_bytes_with_nul on the bytes buffer[0 .. n-1]: Ok only when the
\* last of them is the one zero byte among them
from_bytes_with_nul(buffer, n) ==
    /\ n > 0
    /\ buffer[n - 1] = 0
    /\ \A i \in 0..(n - 2) : buffer[i] # 0

\* make_av_error(action, err): the boxed error "Error <action>: <text>", or
\* a panic where the code unwraps an Err.  idx is the index of the first zero
\* byte and the slice handed to from_bytes_with_nul is buffer[..idx].  A
\* panic unwinds: the values the failing call owns are dropped as on an
\* early return.
make_av_error(action, err) ==
    LET buffer == av_make_error_string(err)
        idx == find_zero(buffer, 0)
    IN  IF from_bytes_with_nul(buffer, idx) THEN action ELSE "panic"

\* ---------------------------------------------------------------- Frame
\* linesize[0] as av_frame_get_buffer sets it: the packed row plus alignment
Stride(fmt, width) == (IF fmt = RgbFmt THEN 3 * width ELSE width) + LinePad

\* Frame::new: av_frame_alloc, then av_frame_get_buffer.  The buffer comes
\* back uninitialised: every byte holds in.init.  A failed get_buffer
\* returns without av_frame_free.
Frame_new(w, site, fmt, width, height, in) ==
    IF Fails(in, site, "av_frame_alloc")
    THEN [w |-> Log(w, "av_frame_alloc", site, ENOMEM), err |-> "AllocFrame",
          frame |-> NoFrame]
    ELSE LET w1 == Alloc(Log(w, "av_frame_alloc", site, 0), site) IN
         IF Fails(in, site, "av_frame_get_buffer")
         THEN [w |-> Log(w1, "av_frame_get_buffer", site, ENOMEM),
               err |-> make_av_error("AllocFrameBuffer", ENOMEM),
               frame |-> NoFrame]
         ELSE [w |-> Log(w1, "av_frame_get_buffer", site, 0), err |-> "ok",
               frame |-> [id |-> site,
                          fmt |-> fmt, width |-> width, height |-> height,
                          stride |-> Stride(fmt, width), pts |-> NoPts,
                          data |-> [i \in 0..(Stride(fmt, width) * height - 1)
                                        |-> in.init],
                          shared |-> FALSE]]

\* Drop for Frame: av_frame_free
Frame_drop(w, site) == Release(Log(w, "av_frame_free", site, 0), site)

\* Frame::ensure_writeable: av_frame_make_writable returns 0 at once when the
\* buffer has one owner; when the encoder still references it, it moves the
\* frame onto a fresh copy, or fails allocating one.
ensure_writeable(w, site, frame, in) ==
    IF ~frame.shared
    THEN [w |-> Log(w, "av_frame_make_writable", site, 0), err |-> "ok",
          frame |-> frame]
    ELSE IF Fails(in, site, "av_frame_make_writable")
    THEN [w |-> Log(w, "av_frame_make_writable", site, ENOMEM),
          err |-> make_av_error("MakeWritable", ENOMEM), frame |-> frame]
    ELSE [w |-> Log(w, "av_frame_make_writable", site, 0), err |-> "ok",
          frame |-> [frame EXCEPT !.shared = FALSE]]

\* a set_pts that leaves the frame's own timestamp in place
set_pts_kept(frame, pts) == frame

\* Frame::set_pts
set_pts(frame, pts) == [frame EXCEPT !.pts = pts]

\* ------------------------------------------------------ image sources
\* The colour of pixel (x, y) of source image c: three distinct channels.
Pixel(c, x, y, width) == [r |-> c + 10 * (y * width + x) + 1,
                          g |-> c + 10 * (y * width + x) + 2,
                          b |-> c + 10 * (y * width + x) + 3]

CairoFormats == {"Rgb24", "ARgb32", "A8", "Rgb16_565"}
Colours == {100 * i : i \in 0..(NumColours - 1)}

\* cairo::ImageSurface: 32-bit pixels, little-endian B G R x; stride 4*width
CairoSurfaces ==
    [format : {"Rgb24", "ARgb32"}, width : {FrameW}, height : {FrameH},
     c : Colours]
    \cup [format : {"A8", "Rgb16_565"}, width : {FrameW}, height : {FrameH},
          c : {0}]
    \cup {[format |-> "Rgb24", width |-> FrameW + 1, height |-> FrameH, c |-> 0],
          [format |-> "ARgb32", width |-> FrameW, height |-> FrameH + 1, c |-> 0],
          [format |-> "A8", width |-> FrameW + 1, height |-> FrameH + 1, c |-> 0]}
cairo_stride(s) == 4 * s.width
cairo_data(s, off) ==
    LET y == off \div cairo_stride(s)
        x == (off % cairo_stride(s)) \div 4
        ch == off % 4
        p == Pixel(s.c, x, y, s.width)
    IN  CASE ch = 0 -> p.b [] ch = 1 -> p.g [] ch = 2 -> p.r [] OTHER -> 255

\* image::RgbImage: packed R G B, rows in order
RgbImages ==
    [width : {FrameW}, height : {FrameH}, c : Colours]
    \cup {[width |-> FrameW + 1, height |-> FrameH, c |-> 0],
          [width |-> FrameW, height |-> FrameH + 1, c |-> 0]}

\* The byte fill_from writes at offset `off` of plane 0, or the old byte
\* when no pixel covers the offset (the row padding).
FilledByte(old, off, stride, width, height, px(_, _)) ==
    LET y == off \div stride
        col == off % stride
        x == col \div 3
        ch == col % 3
    IN  IF y < height /\ x < width
        THEN (CASE ch = 0 -> px(x, y).r [] ch = 1 -> px(x, y).g
                [] OTHER -> px(x, y).b)
        ELSE old

\* a fill that copies the pixels before it looks at the surface's format
fill_from_cairo_rgb_format_checked_last(w, site, frame, s, in) ==
    Let(ensure_writeable(w, site, frame, in), LAMBDA e :
    IF e.err # "ok" THEN e
    ELSE IF s.width # e.frame.width \/ s.height # e.frame.height
    THEN [e EXCEPT !.err = "SizeMismatch"]
    ELSE LET px(x, y) ==
                 [r |-> cairo_data(s, y * cairo_stride(s) + x * 4 + 2),
                  g |-> cairo_data(s, y * cairo_stride(s) + x * 4 + 1),
                  b |-> cairo_data(s, y * cairo_stride(s) + x * 4)]
         IN [e EXCEPT !.frame.data =
                [off \in DOMAIN e.frame.data |->
                    FilledByte(e.frame.data[off], off, e.frame.stride,
                               e.frame.width, e.frame.height, px)],
                      !.err = IF s.format # "Rgb24" /\ s.format # "ARgb32"
                              THEN "UnsupportedFormat" ELSE "ok"])

\* Frame::fill_from_cairo_rgb
fill_from_cairo_rgb(w, site, frame, s, in) ==
    Let(ensure_writeable(w, site, frame, in), LAMBDA e :
    IF e.err # "ok" THEN e
    ELSE IF s.width # e.frame.width \/ s.height # e.frame.height
    THEN [e EXCEPT !.err = "SizeMismatch"]
    ELSE IF s.format # "Rgb24" /\ s.format # "ARgb32"
    THEN [e EXCEPT !.err = "UnsupportedFormat"]
    ELSE IF Fails(in, site, "with_data")
    THEN [e EXCEPT !.err = "BorrowError",
                   !.w = Log(e.w, "with_data", site, EINVAL)]
    ELSE LET px(x, y) ==
                 [r |-> cairo_data(s, y * cairo_stride(s) + x * 4 + 2),
                  g |-> cairo_data(s, y * cairo_stride(s) + x * 4 + 1),
                  b |-> cairo_data(s, y * cairo_stride(s) + x * 4)]
         IN [e EXCEPT !.frame.data =
                [off \in DOMAIN e.frame.data |->
                    FilledByte(e.frame.data[off], off, e.frame.stride,
                               e.frame.width, e.frame.height, px)]])

\* a fill that also stamps the frame with a timestamp
fill_from_image_rgb_stamping(w, site, frame, img, in) ==
    Let(ensure_writeable(w, site, frame, in), LAMBDA e :
    IF e.err # "ok" THEN e
    ELSE IF img.width # e.frame.width \/ img.height # e.frame.height
    THEN [e EXCEPT !.err = "SizeMismatch"]
    ELSE LET px(x, y) == Pixel(img.c, x, y, img.width)
         IN [e EXCEPT !.frame.pts = 0,
                      !.frame.data =
                [off \in DOMAIN e.frame.data |->
                    FilledByte(e.frame.data[off], off, e.frame.stride,
                               e.frame.width, e.frame.height, px)]])

\* Frame::fill_from_image_rgb
fill_from_image_rgb(w, site, frame, img, in) ==
    Let(ensure_writeable(w, site, frame, in), LAMBDA e :
    IF e.err # "ok" THEN e
    ELSE IF img.width # e.frame.width \/ img.height # e.frame.height
    THEN [e EXCEPT !.err = "SizeMismatch"]
    ELSE LET px(x, y) == Pixel(img.c, x, y, img.width)
         IN [e EXCEPT !.frame.data =
                [off \in DOMAIN e.frame.data |->
                    FilledByte(e.frame.data[off], off, e.frame.stride,
                               e.frame.width, e.frame.height, px)]])

\* ------------------------------------------------------------ Container
Paths == {"out.mp4", "out.xyz", "non-utf8", "nul-inside"}
Recognized(filename) == filename = "out.mp4"

fc0 == [ctx |-> FALSE, cause |-> "none", pb |-> FALSE, on_disk |-> FALSE,
        nb_streams |-> 0, stream_id |-> -1, stream_index |-> -1,
        stream_tb |-> [num |-> 0, den |-> 1], codecpar |-> FALSE,
        header |-> FALSE, written |-> <<>>, trailer |-> 0]

\* The muxer's avformat_alloc_output_context2(&ctx, NULL, NULL, filename):
\* no handle when the context cannot be allocated (ENOMEM) or when no muxer
\* matches the file name; FFmpeg reports the latter as AVERROR(EINVAL), and
\* in.noformat_rc also covers a muxer that reports it with a code >= 0.
avformat_alloc_output_context2(filename, in) ==
    IF Fails(in, "fmt_ctx", "avformat_alloc_output_context2")
    THEN [ctx |-> FALSE, rc |-> ENOMEM, cause |-> "nomem"]
    ELSE IF ~Recognized(filename)
    THEN [ctx |-> FALSE, rc |-> in.noformat_rc, cause |-> "noformat"]
    ELSE [ctx |-> TRUE, rc |-> 0, cause |-> "ok"]

\* The error OutputFormatContext::new returns for a null handle
NullContextError(rc) ==
    IF rc < 0 THEN make_av_error("AllocCtx", rc) ELSE "NoFormat"

\* OutputFormatContext::new
OutputFormatContext_new(w, filename, in) ==
    IF filename = "non-utf8" THEN [w |-> w, err |-> "FilenameUtf8"]
    ELSE IF filename = "nul-inside" THEN [w |-> w, err |-> "FilenameNul"]
    ELSE Let(avformat_alloc_output_context2(filename, in), LAMBDA r :
         LET w1 == Log([w EXCEPT !.fc.cause = r.cause],
                       "avformat_alloc_output_context2", "fmt_ctx", r.rc)
         IN IF ~r.ctx
            THEN [w |-> w1, err |-> NullContextError(r.rc)]
            ELSE [w |-> Alloc([w1 EXCEPT !.fc.ctx = TRUE], "fmt_ctx"),
                  err |-> "ok"])

\* OutputFormatContext::open_file
open_file(w, in) ==
    IF Fails(in, "avio", "avio_open")
    THEN [w |-> Log(w, "avio_open", "avio", EIO),
          err |-> make_av_error("OpenFile", EIO)]
    ELSE [w |-> Alloc(Log([w EXCEPT !.fc.pb = TRUE, !.fc.on_disk = TRUE],
                          "avio_open", "avio", 0), "avio"),
          err |-> "ok"]

\* OutputFormatContext::write_header; the muxer picks the stream's time base
\* while writing the header: 1/(den * MuxTbScale).
write_header(w, in) ==
    LET rc == IF Fails(in, "fmt_ctx", "avformat_write_header") THEN EIO ELSE 0
        w1 == IF rc < 0 THEN w
              ELSE [w EXCEPT !.fc.header = TRUE,
                             !.fc.stream_tb.den = @ * MuxTbScale]
        w2 == Log(Log(w1, "avformat_write_header", "fmt_ctx", rc),
                  "av_dict_free", "header_opts", 0)
    IN  [w |-> w2,
         err |-> IF rc < 0 THEN make_av_error("WriteHeader", rc) ELSE "ok"]

\* OutputFormatContext::write_trailer
write_trailer(w, in) ==
    IF Fails(in, "fmt_ctx", "av_write_trailer")
    THEN [w |-> Log(w, "av_write_trailer", "fmt_ctx", EIO),
          err |-> make_av_error("WriteTrailer", EIO)]
    ELSE [w |-> Log([w EXCEPT !.fc.trailer = @ + 1],
                    "av_write_trailer", "fmt_ctx", 0),
          err |-> "ok"]

\* Drop for OutputFormatContext: avio_closep (a no-op on a file never
\* opened), then avformat_free_context.
OutputFormatContext_drop(w) ==
    Let(Log(w, "avio_closep", "avio", 0), LAMBDA w1 :
    LET w2 == IF w1.fc.pb THEN Release([w1 EXCEPT !.fc.pb = FALSE], "avio")
              ELSE w1
    IN  Release(Log([w2 EXCEPT !.fc.ctx = FALSE],
                    "avformat_free_context", "fmt_ctx", 0), "fmt_ctx"))

\* -------------------------------------------------------- Encoder Session
\* st: the session's state; queue: the pictures accepted and not yet given
\* out, the first `ready` of them ready; sent: every frame handed to
\* avcodec_send_frame, accepted or not; accepted, eofs: counts.
enc0 == [st |-> "none", codec |-> "unset", cfg |-> [pix_fmt |-> "none"],
         opts |-> [preset |-> "none"], queue |-> <<>>, ready |-> 0,
         sent |-> <<>>, accepted |-> 0, eofs |-> 0]

SentEntry(frame, ok) ==
    [id |-> frame.id, pts |-> frame.pts, fmt |-> frame.fmt,
     width |-> frame.width, height |-> frame.height, ok |-> ok]

\* AVCodecContextWrapper::new
AVCodecContextWrapper_new(w, in) ==
    IF Fails(in, "codec_ctx", "avcodec_alloc_context3")
    THEN [w |-> Log(w, "avcodec_alloc_context3", "codec_ctx", ENOMEM),
          err |-> "AllocCodecCtx"]
    ELSE [w |-> Alloc(Log([w EXCEPT !.enc.st = "alloc"],
                          "avcodec_alloc_context3", "codec_ctx", 0),
                      "codec_ctx"),
          err |-> "ok"]

\* Drop for AVCodecContextWrapper: avcodec_free_context
AVCodecContextWrapper_drop(w) ==
    Release(Log([w EXCEPT !.enc.st = "freed"],
                "avcodec_free_context", "codec_ctx", 0), "codec_ctx")

\* AVCodecContextWrapper::send_frame.  An accepted frame is queued inside
\* the session, which keeps a reference to its buffer; in.nready of the
\* queued pictures are then ready to come out.
send_frame(w, frame, in) ==
    IF Fails(in, "codec_ctx", "avcodec_send_frame") \/ w.enc.st # "open"
    THEN LET rc == IF w.enc.st # "open" THEN AVERROR_EOF ELSE EIO IN
         [w |-> Log([w EXCEPT !.enc.sent = Append(@, SentEntry(frame, FALSE))],
                    "avcodec_send_frame", "frame", rc),
          err |-> make_av_error("SendFrame", rc), frame |-> frame]
    ELSE LET q == Append(w.enc.queue,
                         [seq |-> w.enc.accepted + 1, pts |-> frame.pts])
             nr == IF in.nready < Len(q) THEN in.nready ELSE Len(q)
         IN [w |-> Log([w EXCEPT !.enc.queue = q, !.enc.ready = nr,
                                 !.enc.accepted = @ + 1,
                                 !.enc.sent = Append(@, SentEntry(frame, TRUE))],
                       "avcodec_send_frame", "frame", 0),
             err |-> "ok", frame |-> [frame EXCEPT !.shared = TRUE]]

\* AVCodecContextWrapper::finish: a null frame signals end of stream, after
\* which everything queued is ready.
AVCodecContextWrapper_finish(w, in) ==
    IF Fails(in, "codec_ctx", "avcodec_send_frame")
    THEN [w |-> Log(w, "avcodec_send_frame", "null", EIO),
          err |-> make_av_error("SendEOF", EIO)]
    ELSE IF w.enc.st # "open"
    THEN [w |-> Log(w, "avcodec_send_frame", "null", AVERROR_EOF),
          err |-> make_av_error("SendEOF", AVERROR_EOF)]
    ELSE [w |-> Log([w EXCEPT !.enc.st = "draining",
                              !.enc.ready = Len(w.enc.queue),
                              !.enc.eofs = @ + 1],
                    "avcodec_send_frame", "null", 0),
          err |-> "ok"]

\* av_rescale_q: a * bq / cq, rounded to the nearest integer
RescaleQ(a, bq, cq) ==
    (a * bq.num * cq.den + ((bq.den * cq.num) \div 2)) \div (bq.den * cq.num)

\* avcodec_receive_packet into the reused Packet Buffer
receive_packet(w, in, k) ==
    IF FailsAt(in, k, "avcodec_receive_packet")
    THEN [w |-> Log(w, "avcodec_receive_packet", "packet", EIO), rc |-> EIO]
    ELSE IF w.enc.ready > 0
    THEN [w |-> Log([w EXCEPT !.enc.queue = Tail(@), !.enc.ready = @ - 1,
                              !.os.packet = [seq |-> Head(w.enc.queue).seq,
                                             pts |-> Head(w.enc.queue).pts,
                                             stream_index |-> 0,
                                             tb |-> w.enc.cfg.time_base]],
                    "avcodec_receive_packet", "packet", 0),
          rc |-> 0]
    ELSE LET rc == IF w.enc.st = "draining" THEN AVERROR_EOF ELSE EAGAIN
         IN [w |-> Log(w, "avcodec_receive_packet", "packet", rc), rc |-> rc]

\* av_packet_rescale_ts and the stream_index assignment of flush
rescale_packet(w) ==
    [w EXCEPT !.os.packet.pts = RescaleQ(@, w.enc.cfg.time_base, w.fc.stream_tb),
              !.os.packet.tb = w.fc.stream_tb,
              !.os.packet.stream_index = w.fc.stream_index]

\* av_interleaved_write_frame: the muxer takes the packet and blanks the buffer
interleaved_write(w, in, k) ==
    IF FailsAt(in, k, "av_interleaved_write_frame")
    THEN [w |-> Log(w, "av_interleaved_write_frame", "packet", EIO),
          rc |-> EIO]
    ELSE [w |-> Log([w EXCEPT !.fc.written = Append(@, w.os.packet),
                              !.os.packet = [seq |-> 0]],
                    "av_interleaved_write_frame", "packet", 0),
          rc |-> 0]

\* AVCodecContextWrapper::flush, from its k-th iteration on
RECURSIVE flush_from(_, _, _)
flush_from(w, in, k) ==
    Let(receive_packet(w, in, k), LAMBDA r :
    IF r.rc = EAGAIN \/ r.rc = AVERROR_EOF THEN [w |-> r.w, err |-> "ok"]
    ELSE IF r.rc < 0 THEN [w |-> r.w, err |-> make_av_error("Encode", r.rc)]
    ELSE Let(interleaved_write(rescale_packet(r.w), in, k), LAMBDA x :
         IF x.rc < 0
         THEN [w |-> x.w, err |-> make_av_error("WritePacket", x.rc)]
         ELSE flush_from(x.w, in, k + 1)))

\* a drain that stops after its first packet instead of looping
flush_first_only(w, in) ==
    Let(receive_packet(w, in, 1), LAMBDA r :
    IF r.rc = EAGAIN \/ r.rc = AVERROR_EOF THEN [w |-> r.w, err |-> "ok"]
    ELSE IF r.rc < 0 THEN [w |-> r.w, err |-> make_av_error("Encode", r.rc)]
    ELSE Let(interleaved_write(rescale_packet(r.w), in, 1), LAMBDA x :
         [w |-> x.w,
          err |-> IF x.rc < 0 THEN make_av_error("WritePacket", x.rc)
                  ELSE "ok"]))

\* a drain that reports "no packet ready" as an encoding error
flush_again_is_error(w, in) ==
    Let(flush_from(w, in, 1), LAMBDA d :
    IF d.w.calls[Len(d.w.calls)].rc = EAGAIN
    THEN [d EXCEPT !.err = "Encode"] ELSE d)

\* AVCodecContextWrapper::flush
flush(w, in) == flush_from(w, in, 1)

\* ------------------------------------------------------- Conversion Stage
NoSws == [made |-> FALSE]

\* SwsContextWrapper::new
SwsContextWrapper_new(w, src, dest, in) ==
    IF Fails(in, "sws", "sws_getContext")
    THEN [w |-> Log(w, "sws_getContext", "sws", ENOMEM), err |-> "SwsInit"]
    ELSE [w |-> Alloc(Log([w EXCEPT !.os.sws =
                              [made |-> TRUE,
                               src |-> <<src.width, src.height, src.fmt>>,
                               dst |-> <<dest.width, dest.height, dest.fmt>>],
                                    !.os.sws_made = @ + 1],
                          "sws_getContext", "sws", 0), "sws"),
          err |-> "ok"]

\* What sws_scale leaves at offset `off` of the destination's first plane:
\* the luma of the source pixel for the rows of the slice, the old byte in
\* the row padding and below the slice.
ScaledByte(old, off, src, dest, height) ==
    LET y == off \div dest.stride
        x == off % dest.stride
        at(ch) == src.data[y * src.stride + 3 * x + ch]
    IN  IF x < dest.width /\ y < height /\ y < src.height /\ x < src.width
        THEN (at(0) + 2 * at(1) + at(2)) \div 4
        ELSE old

\* a scale that writes the destination without making it writable first
scale_unchecked(w, src, height, in) ==
    [w |-> Log([w EXCEPT !.tmp.data =
                    [off \in DOMAIN w.tmp.data |->
                        ScaledByte(w.tmp.data[off], off, src, w.tmp, height)]],
               "sws_scale", "temp_frame", 0),
     err |-> "ok"]

\* SwsContextWrapper::scale into the stream's temp_frame
scale(w, src, height, in) ==
    Let(ensure_writeable(w, "temp_frame", w.tmp, in), LAMBDA e :
    IF e.err # "ok" THEN [w |-> [e.w EXCEPT !.tmp = e.frame], err |-> e.err]
    ELSE [w |-> Log([e.w EXCEPT !.tmp =
                        [e.frame EXCEPT !.data =
                            [off \in DOMAIN e.frame.data |->
                                ScaledByte(e.frame.data[off], off, src,
                                           e.frame, height)]]],
                    "sws_scale", "temp_frame", 0),
          err |-> "ok"])

\* Drop for SwsContextWrapper
SwsContextWrapper_drop(w) ==
    Release(Log([w EXCEPT !.os.sws = NoSws], "sws_freeContext", "sws", 0), "sws")

\* ----------------------------------------------------------- Output Stream
None == [some |-> FALSE, v |-> 0]
Some(v) == [some |-> TRUE, v |-> v]
unwrap_or(opt, d) == IF opt.some THEN opt.v ELSE d

os0 == [made |-> FALSE, next_pts |-> 0, sws |-> NoSws, sws_made |-> 0,
        packet |-> [seq |-> 0]]

\* AVPacketWrapper::new
AVPacketWrapper_new(w, in) ==
    IF Fails(in, "packet", "av_packet_alloc")
    THEN [w |-> Log(w, "av_packet_alloc", "packet", ENOMEM),
          err |-> "AllocPacket"]
    ELSE [w |-> Alloc(Log(w, "av_packet_alloc", "packet", 0), "packet"),
          err |-> "ok"]

\* Drop for AVPacketWrapper
AVPacketWrapper_drop(w) ==
    Release(Log(w, "av_packet_free", "packet", 0), "packet")

\* a configuration that takes the defaults whatever the builder was given
EncoderConfig_defaults_only(width, height, framerate, pixel_format, settings) ==
    [codec_id |-> "H264", bit_rate |-> DefaultBitrate,
     width |-> width, height |-> height,
     time_base |-> [num |-> 1, den |-> framerate],
     gop_size |-> DefaultGopSize, pix_fmt |-> pixel_format]

\* The Encoder Session configuration OutputStream::new writes
EncoderConfig(width, height, framerate, pixel_format, settings) ==
    [codec_id |-> "H264",
     bit_rate |-> unwrap_or(settings.bitrate, DefaultBitrate),
     width |-> width, height |-> height,
     time_base |-> [num |-> 1, den |-> framerate],
     gop_size |-> unwrap_or(settings.gop_size, DefaultGopSize),
     pix_fmt |-> pixel_format]

\* OutputStream::new
OutputStream_new(w, width, height, framerate, pixel_format, settings, in) ==
    IF Fails(in, "fmt_ctx", "avformat_new_stream")
    THEN [w |-> Log(w, "avformat_new_stream", "fmt_ctx", ENOMEM),
          err |-> "AllocStream"]
    ELSE
    Let(AVCodecContextWrapper_new(
            Log([w EXCEPT !.fc.stream_index = w.fc.nb_streams,
                          !.fc.nb_streams = @ + 1,
                          !.fc.stream_id = w.fc.nb_streams],
                "avformat_new_stream", "fmt_ctx", 0), in), LAMBDA c :
    IF c.err # "ok" THEN c
    ELSE
    Let(Frame_new([c.w EXCEPT !.enc.cfg = EncoderConfig(width, height, framerate,
                                                        pixel_format, settings),
                              !.fc.stream_tb = [num |-> 1, den |-> framerate]],
                  "temp_frame", pixel_format, width, height, in), LAMBDA f :
    IF f.err # "ok"
    THEN [w |-> AVCodecContextWrapper_drop(f.w), err |-> f.err]
    ELSE
    Let(AVPacketWrapper_new([f.w EXCEPT !.tmp = f.frame], in), LAMBDA p :
    IF p.err # "ok"
    THEN [w |-> AVCodecContextWrapper_drop(
                    [Frame_drop(p.w, "temp_frame") EXCEPT !.tmp = NoFrame]),
          err |-> p.err]
    ELSE [w |-> [p.w EXCEPT !.os = [os0 EXCEPT !.made = TRUE]],
          err |-> "ok"])))

\* an add_stream that creates the stream before it looks at the codec's type
add_stream_type_checked_last(w, codec_id, width, height, framerate, pixel_format, settings, in) ==
    IF in.codec = "none"
    THEN [w |-> Log(Log([w EXCEPT !.enc.codec = in.codec],
                        "avcodec_find_encoder", codec_id, ENOMEM),
                    "avcodec_get_name", codec_id, 0),
          err |-> "NoEncoder"]
    ELSE Let(OutputStream_new(Log([w EXCEPT !.enc.codec = in.codec],
                                  "avcodec_find_encoder", codec_id, 0),
                              width, height, framerate, pixel_format,
                              settings, in), LAMBDA r :
         IF r.err = "ok" /\ in.codec # "video"
         THEN [w |-> r.w, err |-> "NotVideo"]
         ELSE r)

\* OutputFormatContext::add_stream; in.codec is the descriptor
\* avcodec_find_encoder returns for the codec id.
add_stream(w, codec_id, width, height, framerate, pixel_format, settings, in) ==
    IF in.codec = "none"
    THEN [w |-> Log(Log([w EXCEPT !.enc.codec = in.codec],
                        "avcodec_find_encoder", codec_id, ENOMEM),
                    "avcodec_get_name", codec_id, 0),
          err |-> "NoEncoder"]
    ELSE LET w1 == Log([w EXCEPT !.enc.codec = in.codec],
                       "avcodec_find_encoder", codec_id, 0) IN
         IF in.codec # "video"
         THEN [w |-> w1, err |-> "NotVideo"]
         ELSE OutputStream_new(w1, width, height, framerate, pixel_format,
                               settings, in)

\* OutputStream::open_video
open_video(w, settings, in) ==
    LET opts == [preset |-> unwrap_or(settings.preset, "medium"),
                 crf |-> settings.crf]
        w1 == Alloc(Log(w, "av_dict_set", "options", 0), "options")
        w2 == IF settings.crf.some
              THEN Log(w1, "av_dict_set_int", "options", 0) ELSE w1
        rc == IF Fails(in, "codec_ctx", "avcodec_open2") THEN EINVAL ELSE 0
        w3 == Log(IF rc < 0 THEN w2
                  ELSE [w2 EXCEPT !.enc.st = "open", !.enc.opts = opts],
                  "avcodec_open2", "codec_ctx", rc)
        w4 == Release(Log(w3, "av_dict_free", "options", 0), "options")
    IN  IF rc < 0 THEN [w |-> w4, err |-> make_av_error("OpenCodec", rc)]
        ELSE IF Fails(in, "codec_ctx", "avcodec_parameters_from_context")
        THEN [w |-> Log(w4, "avcodec_parameters_from_context", "codec_ctx",
                        ENOMEM),
              err |-> make_av_error("CopyParams", ENOMEM)]
        ELSE [w |-> Log([w4 EXCEPT !.fc.codecpar = TRUE],
                        "avcodec_parameters_from_context", "codec_ctx", 0),
              err |-> "ok"]

\* a write_frame that sends the caller's frame whatever its format
write_frame_unconverted(w, frame, in) ==
    Let(send_frame([w EXCEPT !.os.next_pts = @ + 1],
                   set_pts(frame, w.os.next_pts), in), LAMBDA sd :
    IF sd.err # "ok" THEN sd
    ELSE Let(flush(sd.w, in), LAMBDA d :
             [w |-> d.w, err |-> d.err, frame |-> sd.frame]))

\* a write_frame that builds a Conversion Stage for every mismatched frame
write_frame_rebuilds(w, frame, in) ==
    LET convert == w.enc.cfg.pix_fmt # frame.fmt IN
    Let(IF convert
        THEN SwsContextWrapper_new(w, frame, w.tmp, in)
        ELSE [w |-> w, err |-> "ok"], LAMBDA s :
    IF s.err # "ok" THEN [w |-> s.w, err |-> s.err, frame |-> frame]
    ELSE
    Let(IF convert THEN scale(s.w, frame, s.w.enc.cfg.height, in)
        ELSE [w |-> s.w, err |-> "ok"], LAMBDA c :
    IF c.err # "ok" THEN [w |-> c.w, err |-> c.err, frame |-> frame]
    ELSE
    Let(send_frame([c.w EXCEPT !.os.next_pts = @ + 1],
                   set_pts(IF convert THEN c.w.tmp ELSE frame, c.w.os.next_pts),
                   in), LAMBDA sd :
    LET w2 == IF convert THEN [sd.w EXCEPT !.tmp = sd.frame] ELSE sd.w
        fr == IF convert THEN frame ELSE sd.frame
    IN
    IF sd.err # "ok" THEN [w |-> w2, err |-> sd.err, frame |-> fr]
    ELSE Let(flush(w2, in), LAMBDA d :
             [w |-> d.w, err |-> d.err, frame |-> fr]))))

\* a write_frame that advances next_pts only for a frame the encoder accepted
write_frame_counts_accepted(w, frame, in) ==
    LET convert == w.enc.cfg.pix_fmt # frame.fmt IN
    Let(IF convert /\ ~w.os.sws.made
        THEN SwsContextWrapper_new(w, frame, w.tmp, in)
        ELSE [w |-> w, err |-> "ok"], LAMBDA s :
    IF s.err # "ok" THEN [w |-> s.w, err |-> s.err, frame |-> frame]
    ELSE
    Let(IF convert THEN scale(s.w, frame, s.w.enc.cfg.height, in)
        ELSE [w |-> s.w, err |-> "ok"], LAMBDA c :
    IF c.err # "ok" THEN [w |-> c.w, err |-> c.err, frame |-> frame]
    ELSE
    Let(send_frame(c.w,
                   set_pts(IF convert THEN c.w.tmp ELSE frame, c.w.os.next_pts),
                   in), LAMBDA sd :
    LET w2 == IF convert THEN [sd.w EXCEPT !.tmp = sd.frame] ELSE sd.w
        fr == IF convert THEN frame ELSE sd.frame
    IN
    IF sd.err # "ok" THEN [w |-> w2, err |-> sd.err, frame |-> fr]
    ELSE Let(flush([w2 EXCEPT !.os.next_pts = @ + 1], in), LAMBDA d :
             [w |-> d.w, err |-> d.err, frame |-> fr]))))

\* a write_frame that stamps the caller's frame on the converted path too
write_frame_stamps_input(w, frame, in) ==
    LET convert == w.enc.cfg.pix_fmt # frame.fmt IN
    Let(IF convert /\ ~w.os.sws.made
        THEN SwsContextWrapper_new(w, frame, w.tmp, in)
        ELSE [w |-> w, err |-> "ok"], LAMBDA s :
    IF s.err # "ok" THEN [w |-> s.w, err |-> s.err, frame |-> frame]
    ELSE
    Let(IF convert THEN scale(s.w, frame, s.w.enc.cfg.height, in)
        ELSE [w |-> s.w, err |-> "ok"], LAMBDA c :
    IF c.err # "ok" THEN [w |-> c.w, err |-> c.err, frame |-> frame]
    ELSE
    Let(send_frame([c.w EXCEPT !.os.next_pts = @ + 1],
                   set_pts(IF convert THEN c.w.tmp ELSE frame, c.w.os.next_pts),
                   in), LAMBDA sd :
    LET w2 == IF convert THEN [sd.w EXCEPT !.tmp = sd.frame] ELSE sd.w
        fr == set_pts(frame, c.w.os.next_pts)
    IN
    IF sd.err # "ok" THEN [w |-> w2, err |-> sd.err, frame |-> fr]
    ELSE Let(flush(w2, in), LAMBDA d :
             [w |-> d.w, err |-> d.err, frame |-> fr]))))

\* OutputStream::write_frame on `frame`; returns the world, the error and
\* the caller's frame as the call leaves it.
write_frame(w, frame, in) ==
    LET convert == w.enc.cfg.pix_fmt # frame.fmt IN
    Let(IF convert /\ ~w.os.sws.made
        THEN SwsContextWrapper_new(w, frame, w.tmp, in)
        ELSE [w |-> w, err |-> "ok"], LAMBDA s :
    IF s.err # "ok" THEN [w |-> s.w, err |-> s.err, frame |-> frame]
    ELSE
    Let(IF convert THEN scale(s.w, frame, s.w.enc.cfg.height, in)
        ELSE [w |-> s.w, err |-> "ok"], LAMBDA c :
    IF c.err # "ok" THEN [w |-> c.w, err |-> c.err, frame |-> frame]
    ELSE
    Let(send_frame([c.w EXCEPT !.os.next_pts = @ + 1],
                   set_pts(IF convert THEN c.w.tmp ELSE frame, c.w.os.next_pts),
                   in), LAMBDA sd :
    LET w2 == IF convert THEN [sd.w EXCEPT !.tmp = sd.frame] ELSE sd.w
        fr == IF convert THEN frame ELSE sd.frame
    IN
    IF sd.err # "ok" THEN [w |-> w2, err |-> sd.err, frame |-> fr]
    ELSE Let(flush(w2, in), LAMBDA d :
             [w |-> d.w, err |-> d.err, frame |-> fr]))))

\* a finish that signals end-of-stream and leaves out the final drain
OutputStream_finish_no_drain(w, in) == AVCodecContextWrapper_finish(w, in)

\* a finish that signals end-of-stream again after its drain
OutputStream_finish_signals_twice(w, in) ==
    Let(AVCodecContextWrapper_finish(w, in), LAMBDA e :
    IF e.err # "ok" THEN e
    ELSE Let(flush(e.w, in), LAMBDA d :
         IF d.err # "ok" THEN d ELSE AVCodecContextWrapper_finish(d.w, in)))

\* OutputStream::finish
OutputStream_finish(w, in) ==
    Let(AVCodecContextWrapper_finish(w, in), LAMBDA e :
    IF e.err # "ok" THEN e ELSE flush(e.w, in))

\* Drop of an OutputStream, field by field in declaration order:
\* encoder_context, temp_frame, sws_context, packet.
OutputStream_drop(w) ==
    Let([Frame_drop(AVCodecContextWrapper_drop(w), "temp_frame")
            EXCEPT !.tmp = NoFrame], LAMBDA w2 :
    LET w3 == IF w2.os.sws.made THEN SwsContextWrapper_drop(w2) ELSE w2
    IN  [AVPacketWrapper_drop(w3) EXCEPT !.os.made = FALSE])

\* ------------------------------------------------------ SimpleVideoEncoder
\* Drop of the locals of build once add_stream has returned: output_stream
\* (declared last) first, then format_context.
DropLocals(w) == OutputFormatContext_drop(OutputStream_drop(w))

\* a build that writes the header before it opens the file
build_header_before_file(w, b, in) ==
    Let(OutputFormatContext_new(w, b.filename, in), LAMBDA a :
    IF a.err # "ok" THEN a
    ELSE
    Let(add_stream(a.w, "H264", b.width, b.height, b.framerate,
                   TargetFmt, b.settings, in), LAMBDA s :
    IF s.err # "ok" THEN [w |-> OutputFormatContext_drop(s.w), err |-> s.err]
    ELSE
    Let(open_video(s.w, b.settings, in), LAMBDA v :
    IF v.err # "ok" THEN [w |-> DropLocals(v.w), err |-> v.err]
    ELSE
    Let(write_header(v.w, in), LAMBDA h :
    IF h.err # "ok" THEN [w |-> DropLocals(h.w), err |-> h.err]
    ELSE
    Let(open_file(h.w, in), LAMBDA f :
    IF f.err # "ok" THEN [w |-> DropLocals(f.w), err |-> f.err]
    ELSE
    Let(Frame_new(f.w, "rgb_frame", RgbFmt, b.width, b.height, in), LAMBDA r :
    IF r.err # "ok" THEN [w |-> DropLocals(r.w), err |-> r.err]
    ELSE [w |-> [r.w EXCEPT !.rgb = r.frame], err |-> "ok"]))))))

\* SimpleVideoEncoderBuilder::build
build(w, b, in) ==
    Let(OutputFormatContext_new(w, b.filename, in), LAMBDA a :
    IF a.err # "ok" THEN a
    ELSE
    Let(add_stream(a.w, "H264", b.width, b.height, b.framerate,
                   TargetFmt, b.settings, in), LAMBDA s :
    IF s.err # "ok" THEN [w |-> OutputFormatContext_drop(s.w), err |-> s.err]
    ELSE
    Let(open_video(s.w, b.settings, in), LAMBDA v :
    IF v.err # "ok" THEN [w |-> DropLocals(v.w), err |-> v.err]
    ELSE
    Let(open_file(v.w, in), LAMBDA f :
    IF f.err # "ok" THEN [w |-> DropLocals(f.w), err |-> f.err]
    ELSE
    Let(write_header(f.w, in), LAMBDA h :
    IF h.err # "ok" THEN [w |-> DropLocals(h.w), err |-> h.err]
    ELSE
    Let(Frame_new(h.w, "rgb_frame", RgbFmt, b.width, b.height, in), LAMBDA r :
    IF r.err # "ok" THEN [w |-> DropLocals(r.w), err |-> r.err]
    ELSE [w |-> [r.w EXCEPT !.rgb = r.frame], err |-> "ok"]))))))

\* a drop that releases format_context before output_stream
SimpleVideoEncoder_drop_container_first(w) ==
    OutputStream_drop(
        OutputFormatContext_drop(
            [Frame_drop(w, "rgb_frame") EXCEPT !.rgb = NoFrame]))

\* Drop of a SimpleVideoEncoder, field by field in declaration order:
\* temp_rgb_frame, output_stream, format_context.
SimpleVideoEncoder_drop(w) ==
    OutputFormatContext_drop(
        OutputStream_drop([Frame_drop(w, "rgb_frame") EXCEPT !.rgb = NoFrame]))

\* a finish that writes the trailer whether or not the stream finished
SimpleVideoEncoder_finish_trailer_always(w, in) ==
    Let(OutputStream_finish(w, in), LAMBDA a :
    Let(write_trailer(a.w, in), LAMBDA t :
    [w |-> SimpleVideoEncoder_drop(t.w),
     err |-> IF a.err # "ok" THEN a.err ELSE t.err]))

\* SimpleVideoEncoder::finish: takes self by value, so self is dropped when
\* it returns, whatever it returns.
SimpleVideoEncoder_finish(w, in) ==
    Let(OutputStream_finish(w, in), LAMBDA a :
    Let(IF a.err # "ok" THEN a ELSE write_trailer(a.w, in), LAMBDA t :
    [w |-> SimpleVideoEncoder_drop(t.w), err |-> t.err]))

\* SimpleVideoEncoder::append_frame_cairo
append_frame_cairo(w, surface, in) ==
    Let(fill_from_cairo_rgb(w, "rgb_frame", w.rgb, surface, in), LAMBDA e :
    IF e.err # "ok"
    THEN [w |-> [e.w EXCEPT !.rgb = e.frame], err |-> e.err, wrote |-> FALSE]
    ELSE Let(write_frame(e.w, e.frame, in), LAMBDA x :
         [w |-> [x.w EXCEPT !.rgb = x.frame], err |-> x.err, wrote |-> TRUE]))

\* SimpleVideoEncoder::append_frame(&mut self, frame)
append_frame(w, frame, in) ==
    Let(write_frame(w, frame, in), LAMBDA x :
    [w |-> x.w, err |-> x.err, frame |-> x.frame, wrote |-> TRUE])

\* SimpleVideoEncoder::new_frame(&self)
new_frame(w, fmt, in) ==
    Frame_new(w, "user_frame", fmt, w.enc.cfg.width, w.enc.cfg.height, in)

\* ------------------------------------------------------------------ inputs
\* what an uninitialised buffer may hold
InitBytes == {200 + i : i \in 0..(NumGarbage - 1)}
CodecDescriptors == {"none", "video", "audio"}
CrfValues == {23}
BitrateValues == {400000}
GopValues == {12}
PresetValues == {"ultrafast", "veryslow"}

BuildFails ==
    {NoFail,
     F("fmt_ctx", "avformat_alloc_output_context2"),
     F("fmt_ctx", "avformat_new_stream"),
     F("codec_ctx", "avcodec_alloc_context3"),
     F("temp_frame", "av_frame_alloc"), F("temp_frame", "av_frame_get_buffer"),
     F("packet", "av_packet_alloc"),
     F("codec_ctx", "avcodec_open2"),
     F("codec_ctx", "avcodec_parameters_from_context"),
     F("avio", "avio_open"),
     F("fmt_ctx", "avformat_write_header"),
     F("rgb_frame", "av_frame_alloc"), F("rgb_frame", "av_frame_get_buffer")}

BuildInputs == [fail : BuildFails, noformat_rc : {EINVAL, 0},
                codec : CodecDescriptors, init : InitBytes]

\* the receive and write calls a drain of at most n packets can make
DrainFails(n) ==
    {FK("avcodec_receive_packet", k) : k \in 1..(n + 1)}
    \cup {FK("av_interleaved_write_frame", k) : k \in 1..n}

WriteFails(n) ==
    {NoFail, F("sws", "sws_getContext"),
     F("temp_frame", "av_frame_make_writable"),
     F("rgb_frame", "with_data"),
     F("codec_ctx", "avcodec_send_frame")} \cup DrainFails(n)

\* a drain that finds nready packets makes nready + 1 receive calls
WriteInputs(n) ==
    {in \in [fail : WriteFails(n), nready : 0..n] : in.fail.k <= in.nready + 1}

FinishFails(n) ==
    {NoFail, F("codec_ctx", "avcodec_send_frame"),
     F("fmt_ctx", "av_write_trailer")} \cup DrainFails(n)

FinishInputs(n) == [fail : FinishFails(n)]

FrameFails ==
    {NoFail, F("user_frame", "av_frame_alloc"),
     F("user_frame", "av_frame_get_buffer")}

FrameInputs == [fail : FrameFails, init : InitBytes]

FillFails ==
    {NoFail, F("user_frame", "av_frame_make_writable"),
     F("user_frame", "with_data")}

FillInputs == [fail : FillFails]

\* ------------------------------------------------------------------- state
\* the world an API call starts from: its call log is empty
World == [calls |-> <<>>, alive |-> alive, rel |-> rel, fc |-> fc,
          enc |-> enc, os |-> os, tmp |-> tmp, rgb |-> rgb]

\* a native call of the operation that led to world w failed
Failed(w) ==
    \E i \in 1..Len(w.calls) :
        w.calls[i].rc < 0 /\ w.calls[i].rc \notin {EAGAIN, AVERROR_EOF}

Commit(w) ==
    /\ calls' = w.calls
    /\ alive' = w.alive
    /\ rel' = w.rel
    /\ fc' = w.fc
    /\ enc' = w.enc
    /\ os' = w.os
    /\ tmp' = w.tmp
    /\ rgb' = w.rgb
    /\ faults' = faults + (IF Failed(w) THEN 1 ELSE 0)

\* wf after an append-frame call that returned r
Counted(c, r) ==
    [calls |-> c.calls + (IF r.wrote THEN 1 ELSE 0),
     ok |-> c.ok + (IF r.wrote /\ r.err = "ok" THEN 1 ELSE 0)]

\* an action may inject a failure while the budget lasts
MayFail(in) == in.fail = NoFail \/ faults < MaxFaults

NoSettings == [crf |-> None, bitrate |-> None, gop_size |-> None,
               preset |-> [some |-> FALSE, v |-> "none"]]

\* what `result` keeps of the source of a fill
NoSource == [size_ok |-> TRUE, format_ok |-> TRUE]
SourceOf(frame, width, height, format_ok) ==
    [size_ok |-> width = frame.width /\ height = frame.height,
     format_ok |-> format_ok]
CairoSourceOf(frame, s) ==
    SourceOf(frame, s.width, s.height, s.format \in {"Rgb24", "ARgb32"})

Init ==
    /\ phase = "idle"
    /\ builder = [filename |-> "none", width |-> 0, height |-> 0,
                  framerate |-> 0, settings |-> NoSettings]
    /\ logSets = 0
    /\ calls = <<>>
    /\ alive = {}
    /\ rel = <<>>
    /\ fc = fc0
    /\ enc = enc0
    /\ os = os0
    /\ tmp = NoFrame
    /\ rgb = NoFrame
    /\ uframe = NoFrame
    /\ result = [op |-> "none", err |-> "ok", src |-> NoSource]
    /\ nwrites = 0
    /\ nfills = 0
    /\ faults = 0
    /\ wf = [calls |-> 0, ok |-> 0]
    /\ finished = FALSE

\* --------------------------------------------------------------- actions
\* a construction that sets the log level only the first time in the process
SimpleVideoEncoderBuilder_new_once ==
    /\ logSets < MaxBuilders
    /\ \E path \in Paths :
          builder' = [filename |-> path, width |-> FrameW, height |-> FrameH,
                      framerate |-> Framerate, settings |-> NoSettings]
    /\ logSets' = IF logSets = 0 THEN 1 ELSE logSets
    /\ calls' = IF logSets = 0
                THEN <<[fn |-> "av_log_set_level", on |-> "quiet", rc |-> 0]>>
                ELSE <<>>
    /\ phase' = "builder"
    /\ result' = [op |-> "builder", err |-> "ok", src |-> NoSource]
    /\ UNCHANGED <<alive, rel, fc, enc, os, tmp, rgb, uframe, nwrites, nfills,
                   faults, wf, finished>>

\* SimpleVideoEncoderBuilder::new
SimpleVideoEncoderBuilder_new ==
    /\ logSets < MaxBuilders
    /\ \E path \in Paths :
          builder' = [filename |-> path, width |-> FrameW, height |-> FrameH,
                      framerate |-> Framerate, settings |-> NoSettings]
    /\ logSets' = logSets + 1
    /\ calls' = <<[fn |-> "av_log_set_level", on |-> "quiet", rc |-> 0]>>
    /\ phase' = "builder"
    /\ result' = [op |-> "builder", err |-> "ok", src |-> NoSource]
    /\ UNCHANGED <<alive, rel, fc, enc, os, tmp, rgb, uframe, nwrites, nfills,
                   faults, wf, finished>>

\* the process's first SimpleVideoEncoder::builder (or ::new)
BuilderNew == phase = "idle" /\ SimpleVideoEncoderBuilder_new

\* a later SimpleVideoEncoder::builder, replacing the builder held
BuilderAgain == phase = "builder" /\ SimpleVideoEncoderBuilder_new

SetOption(name, values) ==
    /\ phase = "builder"
    /\ \E v \in values :
          builder' = [builder EXCEPT !.settings[name] = Some(v)]
    /\ result' = [op |-> name, err |-> "ok", src |-> NoSource]
    /\ calls' = <<>>
    /\ UNCHANGED <<phase, logSets, alive, rel, fc, enc, os, tmp, rgb,
                   uframe, nwrites, nfills, faults, wf, finished>>

\* SimpleVideoEncoderBuilder::crf
Crf == SetOption("crf", CrfValues)

\* SimpleVideoEncoderBuilder::preset
Preset == SetOption("preset", PresetValues)

\* SimpleVideoEncoderBuilder::bitrate
Bitrate == SetOption("bitrate", BitrateValues)

\* SimpleVideoEncoderBuilder::set_gop_size
SetGopSize == SetOption("gop_size", GopValues)

\* SimpleVideoEncoderBuilder::build (and SimpleVideoEncoder::new)
Build ==
    /\ phase = "builder"
    /\ \E in \in BuildInputs :
          /\ MayFail(in)
          /\ \E r \in {build(World, builder, in)} :
             /\ Commit(r.w)
             /\ result' = [op |-> "build", err |-> r.err, src |-> NoSource]
             /\ phase' = IF r.err = "ok" THEN "enc" ELSE "gone"
    /\ UNCHANGED <<builder, logSets, uframe, nwrites, nfills, wf, finished>>

\* SimpleVideoEncoder::new_frame
NewFrame ==
    /\ phase = "enc"
    /\ uframe = NoFrame
    /\ "user_frame" \notin alive
    /\ ~\E i \in 1..Len(rel) : rel[i] = "user_frame"
    /\ \E in \in FrameInputs, fmt \in PixFmts :
          /\ MayFail(in)
          /\ \E r \in {new_frame(World, fmt, in)} :
             /\ Commit(r.w)
             /\ uframe' = r.frame
             /\ result' = [op |-> "new_frame", err |-> r.err, src |-> NoSource]
    /\ UNCHANGED <<phase, builder, logSets, nwrites, nfills, wf, finished>>

\* a Frame from the new_frame of another encoder, one built for frames of
\* another width
OtherW == FrameW + 1
NewFrameElsewhere ==
    /\ phase = "enc"
    /\ uframe = NoFrame
    /\ "user_frame" \notin alive
    /\ ~\E i \in 1..Len(rel) : rel[i] = "user_frame"
    /\ \E in \in FrameInputs, fmt \in PixFmts :
          /\ in.fail = NoFail
          /\ \E r \in {Frame_new(World, "user_frame", fmt, OtherW, FrameH, in)} :
             /\ Commit(r.w)
             /\ uframe' = r.frame
             /\ result' = [op |-> "new_frame", err |-> r.err, src |-> NoSource]
    /\ UNCHANGED <<phase, builder, logSets, nwrites, nfills, wf, finished>>

\* the caller drops its Frame
DropFrame ==
    /\ uframe # NoFrame
    /\ \E w \in {Frame_drop(World, "user_frame")} : Commit(w)
    /\ uframe' = NoFrame
    /\ result' = [op |-> "drop_frame", err |-> "ok", src |-> NoSource]
    /\ UNCHANGED <<phase, builder, logSets, nwrites, nfills, wf, finished>>

\* Frame::fill_from_image_rgb on the caller's Frame
FillImage ==
    /\ uframe # NoFrame
    /\ uframe.fmt = RgbFmt
    /\ nfills < MaxFills
    /\ \E img \in RgbImages, in \in FillInputs :
          /\ MayFail(in)
          /\ \E r \in {fill_from_image_rgb(World, "user_frame", uframe, img,
                                             in)} :
             /\ Commit(r.w)
             /\ uframe' = r.frame
             /\ result' = [op |-> "fill_from_image_rgb", err |-> r.err,
                           src |-> SourceOf(uframe, img.width, img.height,
                                            TRUE)]
    /\ nfills' = nfills + 1
    /\ UNCHANGED <<phase, builder, logSets, nwrites, wf, finished>>

\* Frame::fill_from_cairo_rgb on the caller's Frame
FillCairo ==
    /\ uframe # NoFrame
    /\ uframe.fmt = RgbFmt
    /\ nfills < MaxFills
    /\ \E s \in CairoSurfaces, in \in FillInputs :
          /\ MayFail(in)
          /\ \E r \in {fill_from_cairo_rgb(World, "user_frame", uframe, s,
                                             in)} :
             /\ Commit(r.w)
             /\ uframe' = r.frame
             /\ result' = [op |-> "fill_from_cairo_rgb", err |-> r.err,
                           src |-> CairoSourceOf(uframe, s)]
    /\ nfills' = nfills + 1
    /\ UNCHANGED <<phase, builder, logSets, nwrites, wf, finished>>

\* SimpleVideoEncoder::append_frame with the caller's Frame
AppendFrame ==
    /\ phase = "enc"
    /\ uframe # NoFrame
    /\ nwrites < MaxFrames
    /\ \E in \in WriteInputs(Len(enc.queue) + 1) :
          /\ MayFail(in)
          /\ \E r \in {append_frame(World, uframe, in)} :
             /\ Commit(r.w)
             /\ uframe' = r.frame
             /\ result' = [op |-> "append_frame", err |-> r.err,
                           src |-> NoSource]
             /\ wf' = Counted(wf, r)
    /\ nwrites' = nwrites + 1
    /\ UNCHANGED <<phase, builder, logSets, nfills, finished>>

\* SimpleVideoEncoder::append_frame_cairo
AppendFrameCairo ==
    /\ phase = "enc"
    /\ nwrites < MaxFrames
    /\ \E s \in CairoSurfaces, in \in WriteInputs(Len(enc.queue) + 1) :
          /\ MayFail(in)
          /\ \E r \in {append_frame_cairo(World, s, in)} :
             /\ Commit(r.w)
             /\ result' = [op |-> "append_frame_cairo", err |-> r.err,
                           src |-> CairoSourceOf(rgb, s)]
             /\ wf' = Counted(wf, r)
    /\ nwrites' = nwrites + 1
    /\ UNCHANGED <<phase, builder, logSets, uframe, nfills, finished>>

\* a finish that borrows the encoder and leaves it with the caller
Finish_by_reference ==
    /\ phase = "enc"
    /\ \E in \in FinishInputs(Len(enc.queue)) :
          /\ MayFail(in)
          /\ \E a \in {OutputStream_finish(World, in)} :
             \E t \in {IF a.err # "ok" THEN a ELSE write_trailer(a.w, in)} :
             /\ Commit(t.w)
             /\ result' = [op |-> "finish", err |-> t.err, src |-> NoSource]
    /\ finished' = TRUE
    /\ UNCHANGED <<phase, builder, logSets, uframe, nwrites, nfills, wf>>

\* SimpleVideoEncoder::finish(self): the call consumes the encoder
Finish ==
    /\ phase = "enc"
    /\ \E in \in FinishInputs(Len(enc.queue)) :
          /\ MayFail(in)
          /\ \E r \in {SimpleVideoEncoder_finish(World, in)} :
             /\ Commit(r.w)
             /\ result' = [op |-> "finish", err |-> r.err, src |-> NoSource]
    /\ phase' = "gone"
    /\ finished' = TRUE
    /\ UNCHANGED <<builder, logSets, uframe, nwrites, nfills, wf>>

\* the caller drops the encoder without calling finish
DropEncoder ==
    /\ phase = "enc"
    /\ \E w \in {SimpleVideoEncoder_drop(World)} : Commit(w)
    /\ result' = [op |-> "drop", err |-> "ok", src |-> NoSource]
    /\ phase' = "gone"
    /\ UNCHANGED <<builder, logSets, uframe, nwrites, nfills, wf, finished>>

\* the encoder through SimpleVideoEncoder::new: default settings
Next ==
    \/ BuilderNew
    \/ Build
    \/ NewFrame
    \/ DropFrame
    \/ FillImage
    \/ FillCairo
    \/ AppendFrame
    \/ AppendFrameCairo
    \/ Finish
    \/ DropEncoder

Spec == Init /\ [][Next]_vars

\* the builder with its options, up to build
NextBuilder ==
    \/ BuilderNew
    \/ BuilderAgain
    \/ Crf
    \/ Preset
    \/ Bitrate
    \/ SetGopSize
    \/ Build

SpecBuilder == Init /\ [][NextBuilder]_vars


\* write_frame on frames of the encoder's geometry and of another
NextFrames ==
    \/ BuilderNew
    \/ Build
    \/ NewFrame
    \/ NewFrameElsewhere
    \/ AppendFrame
    \/ AppendFrameCairo

SpecFrames == Init /\ [][NextFrames]_vars

\* ------------------------------------------------------------ properties
\* positions in the call log of the last API call
CallsOf(fn) == {i \in 1..Len(calls) : calls[i].fn = fn}
OkBefore(fn, i) == \E j \in 1..(i - 1) : calls[j].fn = fn /\ calls[j].rc = 0
Released(r) == \E i \in 1..Len(rel) : rel[i] = r

\* C1: when every write_frame call has returned Ok and finish has then
\* returned Ok, the container's interleaved write has been handed exactly one
\* packet per submitted frame, in submission order.
C1_OnePacketPerFrameInOrder ==
    (result.op = "finish" /\ result.err = "ok" /\ wf.calls = wf.ok) =>
        /\ Len(fc.written) = wf.ok
        /\ \A i \in 1..Len(fc.written) : fc.written[i].seq = i

\* several frames, all accepted, the last packets coming out only at finish
C1_FinishDrainsDelayedPackets ==
    /\ result.op = "finish" /\ result.err = "ok"
    /\ wf.calls = wf.ok /\ wf.ok >= 2
    /\ Len(fc.written) = wf.ok
    /\ Cardinality(CallsOf("av_interleaved_write_frame")) >= 2

\* C2: the frames write_frame hands to the Encoder Session carry the
\* presentation timestamps 0, 1, 2, ... in the order they are handed over,
\* whatever the caller's frame carried and whichever path the frame took.
C2_PtsCountFromZero ==
    \A i \in 1..Len(enc.sent) : enc.sent[i].pts = i - 1

\* the caller's frame sent directly, a converted frame, and the caller's
\* frame (still carrying its earlier timestamp) sent directly again
C2_DirectConvertedDirect ==
    \E i, j, k \in 1..Len(enc.sent) :
        /\ i < j /\ j < k
        /\ enc.sent[i].id = "user_frame"
        /\ enc.sent[j].id = "temp_frame"
        /\ enc.sent[k].id = "user_frame"

\* C3 (amended): finish consumes the encoder, so once it has returned no
\* finish and no append-frame can be called on it: nothing further reaches
\* the Encoder Session, the stream or the container, and no resource is
\* allocated.
C3_NothingAfterFinish ==
    [][finished => /\ finished' /\ phase' = "gone"
                   /\ fc' = fc /\ enc' = enc /\ os' = os
                   /\ tmp' = tmp /\ rgb' = rgb
                   /\ alive' \subseteq alive]_vars

\* the caller went on after finish, with append-frame calls still in hand
C3_CallerGoesOnAfterFinish ==
    finished /\ result.op \notin {"finish", "build"} /\ nwrites < MaxFrames

\* C3 as stated: after finish, a second finish and an append-frame can be
\* called, and each fails with a usage error.
C3_UsageErrorAfterFinish ==
    finished => /\ ENABLED (Finish /\ result'.err = "Usage")
                /\ ENABLED (AppendFrameCairo /\ result'.err = "Usage")

\* C4: on every release path the Output Stream's resources (Encoder
\* Session, destination Frame, Conversion Stage, Packet Buffer) are
\* released before the Container, and the Container closes its file before
\* it frees its context.
StreamResources == {"codec_ctx", "temp_frame", "sws", "packet"}
C5_HeaderAfterSetupPacketsAfterHeader ==
    /\ \A i \in CallsOf("avformat_write_header") :
           /\ OkBefore("avformat_new_stream", i)
           /\ OkBefore("avcodec_open2", i)
           /\ OkBefore("avcodec_parameters_from_context", i)
           /\ OkBefore("avio_open", i)
    /\ fc.header => fc.nb_streams = 1 /\ fc.codecpar /\ fc.on_disk
    /\ CallsOf("av_interleaved_write_frame") # {} =>
           fc.header /\ CallsOf("avformat_write_header") = {}
    /\ Len(fc.written) > 0 => fc.header

\* a header written and a packet written after it
C5_PacketWrittenAfterHeader ==
    fc.header /\ Len(fc.written) > 0

\* C6 (amended): finish writes the trailer at most once, only after the
\* end-of-stream signal was accepted and the final drain ran to the
\* encoder's end-of-stream; it writes it exactly when the stream's finish
\* succeeded, and not at all when the signal or the drain failed.  No other
\* operation writes it.
TrailerCalls == CallsOf("av_write_trailer")
StreamFinished ==
    \E i \in CallsOf("avcodec_receive_packet") : calls[i].rc = AVERROR_EOF
C6_TrailerOnceAfterStreamFinished ==
    /\ fc.trailer <= 1
    /\ Cardinality(TrailerCalls) <= 1
    /\ \A i \in TrailerCalls :
           /\ result.op = "finish"
           /\ i > 1 /\ calls[i - 1].fn = "avcodec_receive_packet"
           /\ calls[i - 1].rc = AVERROR_EOF
           /\ \E j \in 1..(i - 1) :
                  calls[j] = [fn |-> "avcodec_send_frame", on |-> "null", rc |-> 0]
    /\ result.op = "finish" => (TrailerCalls # {} <=> StreamFinished)
    /\ (result.op = "finish" /\ result.err = "ok") => fc.trailer = 1

\* a finish that drained delayed packets and then wrote the trailer
C6_TrailerAfterFinalDrain ==
    /\ result.op = "finish" /\ result.err = "ok" /\ fc.trailer = 1
    /\ CallsOf("av_interleaved_write_frame") # {}

\* C6 as stated: every finish call writes the trailer exactly once.
C6_FinishAlwaysWritesTrailer ==
    result.op = "finish" => Cardinality(TrailerCalls) = 1

\* C7: as stated, a build on a path whose extension the muxer does not
\* recognize returns an error, and does so before the file is opened: no
\* stream, no encoder, no header, no file on disk.
C7_UnrecognizedExtensionReturnsError ==
    (result.op = "build" /\ fc.cause = "noformat") =>
        /\ result.err \in {"AllocCtx", "NoFormat"}
        /\ phase = "gone"
        /\ ~fc.on_disk /\ ~fc.pb /\ ~fc.header
        /\ Len(calls) = 1
        /\ calls[1].fn = "avformat_alloc_output_context2"
        /\ alive = {}

\* C8: as stated, a build whose format inference fails returns the error
\* 'could not determine output format', and one whose context allocation
\* fails returns the distinct error 'allocating file format context'.
C8_InferenceFailureHasItsOwnError ==
    result.op = "build" =>
        /\ fc.cause = "noformat" => result.err = "NoFormat"
        /\ fc.cause = "nomem" => result.err = "AllocCtx"

\* C9: add_stream fails when the codec has no encoder or is not a video
\* codec, and leaves the Container as it was: no stream added, nothing
\* allocated.
C9_AddStreamRejectsUnusableCodec ==
    (result.op = "build" /\ enc.codec \in {"none", "audio"}) =>
        /\ result.err = (IF enc.codec = "none" THEN "NoEncoder" ELSE "NotVideo")
        /\ fc.nb_streams = 0 /\ fc.stream_index = -1 /\ ~fc.codecpar
        /\ enc.st = "none" /\ tmp = NoFrame /\ ~os.made
        /\ \A i \in 1..Len(calls) :
               calls[i].fn \in {"avformat_alloc_output_context2",
                                "avcodec_find_encoder", "avcodec_get_name",
                                "avio_closep", "avformat_free_context"}
        /\ alive = {} /\ rel = <<"fmt_ctx">>

\* an add_stream on a codec that has an encoder which is not a video encoder
C9_AudioCodecRejected ==
    result.op = "build" /\ enc.codec = "audio" /\ result.err = "NotVideo"

\* C10 (amended): once its ensure-writable step has succeeded, fill-from
\* returns a size-mismatch error for every source whose dimensions differ
\* from the Frame's, an unsupported-format error for every source of the
\* Frame's size whose layout is not one of the two accepted, and in both
\* cases leaves the Frame as it was.
FillOps == {"fill_from_cairo_rgb", "fill_from_image_rgb", "append_frame_cairo"}
FillRejected == {"SizeMismatch", "UnsupportedFormat"}
UserFills == {"fill_from_cairo_rgb", "fill_from_image_rgb"}
PixelByte(frame, off) ==
    (off % frame.stride) < 3 * frame.width /\ (off \div frame.stride) < frame.height
SourceByte(c, frame, off) ==
    LET p == Pixel(c, (off % frame.stride) \div 3, off \div frame.stride,
                   frame.width)
        ch == (off % frame.stride) % 3
    IN  CASE ch = 0 -> p.r [] ch = 1 -> p.g [] OTHER -> p.b
C11_FillRewritesPixelsKeepsTimestamp ==
    [][(result'.op \in UserFills /\ result'.err = "ok") =>
          /\ uframe'.pts = uframe.pts /\ uframe'.fmt = uframe.fmt
          /\ uframe'.width = uframe.width /\ uframe'.height = uframe.height
          /\ uframe'.stride = uframe.stride
          /\ DOMAIN uframe'.data = DOMAIN uframe.data
          /\ \E c \in Colours : \A off \in DOMAIN uframe.data :
                 uframe'.data[off] = IF PixelByte(uframe, off)
                                     THEN SourceByte(c, uframe, off)
                                     ELSE uframe.data[off]]_vars

\* a Frame the encoder had taken, filled again from an image: its pixels
\* hold the image, its row padding what the allocation left there
C11_RefilledAfterSend ==
    /\ result.op = "fill_from_image_rgb" /\ result.err = "ok"
    /\ Len(enc.sent) > 0 /\ ~uframe.shared
    /\ \E off \in DOMAIN uframe.data :
           PixelByte(uframe, off) /\ uframe.data[off] \notin InitBytes
    /\ \E off \in DOMAIN uframe.data :
           ~PixelByte(uframe, off) /\ uframe.data[off] \in InitBytes

\* C11 as stated: after a successful fill-from no byte of the plane is left
\* as it was; none still holds what the allocation left there.
C11_EveryPlaneByteRewritten ==
    (result.op \in UserFills /\ result.err = "ok") =>
        \A off \in DOMAIN uframe.data : uframe.data[off] \notin InitBytes

\* C12: as stated, in build, append-frame and finish the first native call
\* that fails ends the operation: an error is returned to the caller, no
\* native call fails after it, and the only calls after it release what the
\* operation holds (or name the codec for the error message).
EncoderOps == {"build", "append_frame", "append_frame_cairo", "finish"}
FailedCalls ==
    {i \in 1..Len(calls) :
        calls[i].rc < 0 /\ calls[i].rc \notin {EAGAIN, AVERROR_EOF}}
ReleaseFns ==
    {"av_dict_free", "av_frame_free", "avcodec_free_context", "av_packet_free",
     "sws_freeContext", "avio_closep", "avformat_free_context",
     "avcodec_get_name"}
C12_FirstFailureIsReturned ==
    (result.op \in EncoderOps /\ FailedCalls # {}) =>
        /\ result.err \notin {"ok", "panic"}
        /\ Cardinality(FailedCalls) = 1
        /\ \A i \in FailedCalls : \A j \in (i + 1)..Len(calls) :
               calls[j].fn \in ReleaseFns

\* C13: the Encoder Session is Open until end-of-stream is signalled and
\* Draining from then on: end-of-stream is signalled at most once, every
\* frame the session accepted was sent before the signal, and after the
\* signal no frame is sent and no second signal is given; the session only
\* gives out packets until it is freed.
EosSignals ==
    {i \in 1..Len(calls) :
        calls[i] = [fn |-> "avcodec_send_frame", on |-> "null", rc |-> 0]}
AfterEosFns ==
    {"avcodec_receive_packet", "av_interleaved_write_frame",
     "av_write_trailer"} \cup ReleaseFns
C13_OpenThenDraining ==
    /\ [](/\ enc.eofs <= 1
          /\ enc.st \in {"none", "alloc", "open", "freed"}
          /\ enc.eofs = 1 => enc.st = "freed"
          /\ enc.accepted > 0 => enc.st \in {"open", "freed"}
          /\ \A i \in EosSignals : \A j \in (i + 1)..Len(calls) :
                 calls[j].fn \in AfterEosFns)
    /\ [][enc.eofs = 1 => enc' = enc]_vars

\* a session that took frames, was signalled end-of-stream and then gave out
\* its delayed packets
C13_DrainedAfterSignal ==
    /\ result.op = "finish" /\ enc.eofs = 1 /\ enc.accepted >= 2
    /\ \E i \in EosSignals :
           Cardinality({j \in CallsOf("avcodec_receive_packet") : j > i}) >= 2

\* C14 (amended): every Builder/Encoder construction forces the native log
\* level to quiet, the first one and each later one alike; no other operation
\* sets the level, and no other level is ever set.
LogLevelCalls == CallsOf("av_log_set_level")
Configured == result.op = "build" /\ enc.cfg.pix_fmt # "none"
Opened ==
    /\ result.op = "build"
    /\ \E i \in CallsOf("avcodec_open2") : calls[i].rc = 0
Appends == {"append_frame", "append_frame_cairo"}
Appended == IF result'.op = "append_frame" THEN uframe ELSE rgb
Geometry(frame) == <<frame.width, frame.height, frame.fmt>>
SwsCalls(log) ==
    {i \in 1..Len(log) : log[i].fn \in {"sws_getContext", "sws_scale"}}
C16_ConversionStageLazyOnce ==
    /\ [](/\ os.sws_made <= 1
          /\ Cardinality(CallsOf("sws_getContext")) <= 1
          /\ CallsOf("sws_getContext") # {} => result.op \in Appends
          /\ os.sws.made => os.sws_made = 1)
    /\ [][/\ os'.sws_made # os.sws_made =>
               /\ result'.op \in Appends
               /\ os.sws_made = 0 /\ ~os.sws.made /\ os'.sws_made = 1
               /\ Appended.fmt # enc.cfg.pix_fmt
               /\ os'.sws.src = Geometry(Appended)
               /\ os'.sws.dst = Geometry(tmp)
          /\ (os.sws.made /\ result'.op \in Appends) =>
               /\ os'.sws = os.sws
               /\ \A i \in 1..Len(calls') : calls'[i].fn # "sws_getContext"
          /\ (result'.op \in Appends /\ Len(enc'.sent) > Len(enc.sent)) =>
               /\ Len(enc'.sent) = Len(enc.sent) + 1
               /\ IF Appended.fmt = enc.cfg.pix_fmt
                  THEN /\ SwsCalls(calls') = {}
                       /\ enc'.sent[Len(enc'.sent)].id = Appended.id
                       /\ os'.sws = os.sws
                  ELSE /\ \E i \in 1..Len(calls') : calls'[i].fn = "sws_scale"
                       /\ enc'.sent[Len(enc'.sent)].id = "temp_frame"
                       /\ os'.sws.made]_vars

\* a second mismatched frame converted by the stage the first one created
C16_StageReused ==
    /\ result.op \in Appends /\ os.sws_made = 1 /\ os.sws.made
    /\ CallsOf("sws_scale") # {} /\ CallsOf("sws_getContext") = {}
    /\ Cardinality({i \in 1..Len(enc.sent) : enc.sent[i].id = "temp_frame"}) >= 2

\* C17: as stated, every packet a drain pulls is rescaled to the stream's
\* time base, tagged with the stream's index and handed to the interleaved
\* write, once and in the order produced, before the next packet is pulled;
\* a failed write is the drain's last call and its error is returned.
ReceiveCalls == CallsOf("avcodec_receive_packet")
WriteCalls == CallsOf("av_interleaved_write_frame")
IsAccepted(e) == e.ok
AcceptedFrames == SelectSeq(enc.sent, IsAccepted)
C17_EachPacketRescaledAndWritten ==
    /\ \A k \in 1..Len(fc.written) :
           /\ fc.written[k].tb = fc.stream_tb
           /\ fc.written[k].stream_index = fc.stream_index
           /\ fc.written[k].pts =
                  RescaleQ(AcceptedFrames[fc.written[k].seq].pts,
                           enc.cfg.time_base, fc.stream_tb)
           /\ \A l \in 1..(k - 1) : fc.written[l].seq < fc.written[k].seq
    /\ \A i \in ReceiveCalls :
           calls[i].rc = 0 => (i < Len(calls) /\ i + 1 \in WriteCalls)
    /\ \A i \in WriteCalls :
           /\ i - 1 \in ReceiveCalls /\ calls[i - 1].rc = 0
           /\ calls[i].rc < 0 =>
                  /\ result.err \notin {"ok", "panic"}
                  /\ \A j \in (i + 1)..Len(calls) : calls[j].fn \in ReleaseFns

\* C18: a drain ends and returns ok when the session replies "no packet
\* ready" or "end of stream", the very first reply included: the reply is the
\* drain's last call and the operation goes on (append-frame returns ok,
\* finish writes the trailer).  A drain that did not end on such a reply did
\* not return ok: a receive reported another negative status, or a write
\* failed.
DrainOps == Appends \cup {"finish"}
DrainEnds ==
    {i \in ReceiveCalls : calls[i].rc \in {EAGAIN, AVERROR_EOF}}
C18_DrainOkOnAgainOrEof ==
    result.op \in DrainOps =>
        /\ \A i \in DrainEnds :
               /\ \A j \in (i + 1)..Len(calls) :
                      j \notin ReceiveCalls \cup WriteCalls
               /\ result.op \in Appends => (i = Len(calls) /\ result.err = "ok")
               /\ result.op = "finish" =>
                      (i < Len(calls) /\ calls[i + 1].fn = "av_write_trailer")
        /\ (ReceiveCalls # {} /\ DrainEnds = {}) =>
               /\ result.err # "ok"
               /\ \E i \in ReceiveCalls \cup WriteCalls :
                      /\ calls[i].rc < 0
                      /\ \A j \in (i + 1)..Len(calls) : calls[j].fn \in ReleaseFns

\* an append-frame whose drain got "no packet ready" as its first reply
C18_NothingReadyAtFirstReply ==
    /\ result.op \in Appends /\ result.err = "ok"
    /\ Cardinality(ReceiveCalls) = 1 /\ WriteCalls = {}
    /\ calls[Len(calls)].rc = EAGAIN
    /\ Len(enc.queue) > 0

\* C19: every drain ends: it pulls at most one packet per picture the
\* session holds, plus the closing reply.  After an operation that returned
\* ok the last reply was "no packet ready" or "end of stream" and the session
\* holds no packet that is ready; after a finish that returned ok it holds no
\* packet at all.
C19_DrainEndsAndLeavesNothingReady ==
    /\ [](/\ (result.op \in DrainOps /\ result.err = "ok") =>
                 /\ enc.ready = 0
                 /\ Cardinality(DrainEnds) = 1
                 /\ Cardinality(ReceiveCalls) = Cardinality(WriteCalls) + 1
          /\ (result.op = "finish" /\ result.err = "ok") =>
                 /\ enc.queue = <<>>
                 /\ \E i \in DrainEnds : calls[i].rc = AVERROR_EOF)
    /\ [][result'.op \in DrainOps =>
            Cardinality({i \in 1..Len(calls') :
                            calls'[i].fn = "avcodec_receive_packet"})
                <= Len(enc.queue) + 2]_vars

\* a finish whose final drain wrote the packets the session had held back
C19_FinalDrainEmptiesSession ==
    /\ result.op = "finish" /\ result.err = "ok"
    /\ enc.queue = <<>> /\ enc.accepted >= 2
    /\ Cardinality(WriteCalls) >= 2

\* C20: as stated, OutputStream::finish signals end-of-stream once, with a
\* null frame, and then drains once; a failed signal is followed by no drain
\* and its error is returned.
C20_SignalThenOneDrain ==
    result.op = "finish" =>
        /\ CallsOf("avcodec_send_frame") = {1}
        /\ calls[1].on = "null"
        /\ calls[1].rc = 0 =>
               /\ 2 \in ReceiveCalls
               /\ Cardinality(DrainEnds) <= 1
               /\ \A i \in DrainEnds : \A j \in ReceiveCalls \cup WriteCalls : j <= i
        /\ calls[1].rc < 0 =>
               /\ ReceiveCalls \cup WriteCalls = {}
               /\ result.err \notin {"ok", "panic"}

\* C21 (amended): every write of pixel bytes into a Frame, by fill-from and
\* by the Conversion Stage into the destination Frame, comes after a
\* successful ensure-writable on that Frame in the same operation and before
\* the Frame is next sent, so no buffer the encoder references is written in
\* place.  The timestamp stamp of write_frame follows an ensure-writable only
\* on the converted path; on the direct path the caller's Frame is stamped
\* with no ensure-writable, and the stamp changes its timestamp alone.
MadeWritable(log, site) ==
    {i \in 1..Len(log) :
        log[i] = [fn |-> "av_frame_make_writable", on |-> site, rc |-> 0]}
PixelsWritten(old, new) ==
    old # NoFrame /\ new # NoFrame /\ new.data # old.data
Stamped(old, new) ==
    old # NoFrame /\ new # NoFrame /\ new.pts # old.pts
SentGeometry(k) == <<enc.sent[k].width, enc.sent[k].height>>
C22_SentFramesHaveTargetFormat ==
    /\ [](\A k \in 1..Len(enc.sent) :
             /\ enc.sent[k].fmt = enc.cfg.pix_fmt
             /\ enc.sent[k].id = "temp_frame" =>
                    SentGeometry(k) = <<enc.cfg.width, enc.cfg.height>>)
    /\ [][(result'.op \in Appends /\ Len(enc'.sent) > Len(enc.sent)) =>
            LET sent == enc'.sent[Len(enc'.sent)] IN
            /\ Appended.fmt # enc.cfg.pix_fmt => sent.id = "temp_frame"
            /\ Appended.fmt = enc.cfg.pix_fmt =>
                   /\ sent.id = Appended.id
                   /\ sent.width = Appended.width
                   /\ sent.height = Appended.height]_vars

\* a frame of another format and another width, converted and sent with the
\* configured geometry
C22_OtherGeometryConverted ==
    /\ result.op = "append_frame" /\ uframe # NoFrame
    /\ uframe.fmt # enc.cfg.pix_fmt /\ uframe.width # enc.cfg.width
    /\ Len(enc.sent) > 0
    /\ enc.sent[Len(enc.sent)].id = "temp_frame"
    /\ enc.sent[Len(enc.sent)].width = enc.cfg.width
    /\ CallsOf("sws_scale") # {}

\* C22 as stated: every frame handed to the Encoder Session has the target
\* format and the configured width and height.
C22_SentFramesHaveConfiguredGeometry ==
    \A k \in 1..Len(enc.sent) :
        /\ enc.sent[k].fmt = enc.cfg.pix_fmt
        /\ SentGeometry(k) = <<enc.cfg.width, enc.cfg.height>>

\* C23 (amended): after any sequence of write_frame calls the next-timestamp
\* counter equals the number of frames write_frame has handed to the Encoder
\* Session, accepted or refused: the counter advances with the stamp, before
\* the frame is sent.  A write_frame that fails before the stamp (creating
\* the Conversion Stage, converting) leaves the counter unchanged; one whose
\* frame the session refuses has advanced it, though nothing was accepted.
Refused(old, new) ==
    /\ Len(new.sent) = Len(old.sent) + 1
    /\ ~new.sent[Len(new.sent)].ok
C23_CounterCountsFramesHandedOver ==
    /\ [](os.next_pts = Len(enc.sent) /\ enc.accepted <= os.next_pts)
    /\ [](enc.accepted = Len(AcceptedFrames))
    /\ [][result'.op \in Appends =>
            /\ os'.next_pts - os.next_pts = Len(enc'.sent) - Len(enc.sent)
            /\ os'.next_pts - os.next_pts \in {0, 1}
            /\ Refused(enc, enc') =>
                   /\ result'.err # "ok"
                   /\ os'.next_pts = os.next_pts + 1
                   /\ enc'.accepted = enc.accepted]_vars

\* a frame the session refused, then one it accepted: two timestamps used,
\* one frame accepted
C23_RefusedThenAccepted ==
    /\ result.op \in Appends /\ result.err = "ok"
    /\ Len(enc.sent) = 2 /\ ~enc.sent[1].ok /\ enc.sent[2].ok
    /\ os.next_pts = 2 /\ enc.accepted = 1

\* C23 as stated: the counter equals the number of frames the Encoder
\* Session has accepted.
C23_CounterEqualsAccepted == os.next_pts = enc.accepted

\* C24 as stated: every native resource the library allocates is released
\* exactly once by the time its owner is gone, on every path: once the
\* encoder is gone nothing it allocated is still alive, a Frame the caller
\* no longer holds is not alive, and nothing is released twice.
ReleasedOnce == \A i, j \in 1..Len(rel) : rel[i] = rel[j] => i = j
C24_EveryResourceReleasedOnce ==
    /\ ReleasedOnce
    /\ phase = "gone" => alive \ {"user_frame"} = {}
    /\ uframe = NoFrame => "user_frame" \notin alive

\* C25: a write_frame whose frame has another format than the target leaves
\* the caller's frame as it was (pixel data, geometry, timestamp) and, of the
\* Frames, changes only the stream's destination Frame; a write_frame whose
\* frame has the target format changes nothing of the caller's frame but its
\* timestamp, and leaves the destination Frame and the Conversion Stage as
\* they were.
SameButTimestamp(old, new) ==
    /\ new.data = old.data /\ new.stride = old.stride
    /\ Geometry(new) = Geometry(old) /\ new.id = old.id
C25_WriteFrameTouchesOneFrame ==
    [][(result'.op \in Appends /\ nwrites' # nwrites) =>
         /\ Appended.fmt # enc.cfg.pix_fmt =>
                /\ uframe' = uframe
                /\ rgb'.pts = rgb.pts /\ Geometry(rgb') = Geometry(rgb)
                /\ result'.op = "append_frame" => rgb' = rgb
         /\ Appended.fmt = enc.cfg.pix_fmt =>
                /\ result'.op = "append_frame"
                /\ SameButTimestamp(uframe, uframe')
                /\ uframe'.pts = os.next_pts
                /\ tmp' = tmp /\ rgb' = rgb
                /\ os'.sws = os.sws /\ os'.sws_made = os.sws_made
                /\ CallsOf("sws_scale")' = {}]_vars

\* a target-format frame sent directly after a converted one: it carries the
\* second timestamp, the destination Frame still the first, and the
\* Conversion Stage is the one made for the converted frame
C25_DirectAfterConverted ==
    /\ result.op = "append_frame" /\ result.err = "ok"
    /\ uframe # NoFrame /\ uframe.fmt = enc.cfg.pix_fmt /\ uframe.pts = 1
    /\ tmp # NoFrame /\ tmp.pts = 0
    /\ os.sws.made /\ os.sws_made = 1
    /\ CallsOf("sws_scale") = {}

\* C26 (amended): when build returns an error from a step up to and
\* including write_header, no header has been written to the output file
\* (the file was never opened, or it was opened and the header write did not
\* succeed).  The RGB ingestion Frame is allocated after the header is
\* written: when that allocation fails, build returns an error with the file
\* on disk holding a header; this is the only error after the header.
BuildFailed == result.op = "build" /\ result.err # "ok"
FailedOn == {calls[i].on : i \in FailedCalls}
C26_HeaderOnlyBeforeFrameFailure ==
    BuildFailed =>
        /\ fc.header <=> "rgb_frame" \in FailedOn
        /\ fc.header => fc.on_disk
        /\ phase = "gone" /\ "fmt_ctx" \notin alive /\ "avio" \notin alive

\* a build that returned the allocation error of the ingestion Frame, the
\* header already in the file
C26_ErrorAfterHeader ==
    /\ result.op = "build" /\ result.err = "AllocFrame"
    /\ fc.header /\ fc.on_disk
    /\ Released("avio") /\ Released("fmt_ctx")

\* C26 as stated: a build that returns an error has written no header.
C26_BuildErrorLeavesNoHeader == BuildFailed => ~fc.header

====
